---- MODULE Spec2Model ----
(***************************************************************************)
(* A model of src/app.py (CareFit, a single-page Streamlit application):   *)
(* the plan normalizer, the JSON extraction routine, the two-shape         *)
(* generative-endpoint adapter, the completion arithmetic and the session  *)
(* store that the page handlers read and write.                            *)
(*                                                                         *)
(* JSON values are modelled as records [t, s]: t is the Python type of the *)
(* value ("absent" when a dict has no such key) and s is a sequence: the   *)
(* characters of a string, the elements of a list, the keys of a dict, or  *)
(* the characters of str(value) for a number or a boolean.                 *)
(***************************************************************************)
EXTENDS Integers, Sequences, FiniteSets, TLC

VARIABLES
    nphase,     \* normalizer harness: 0 input drawn, 1 applied once, 2 applied twice
    nplan,      \* the parsed value handed to normalize_plan
    nout,       \* normalize_plan(nplan)
    nout2,      \* normalize_plan(nout)
    jphase,     \* extraction harness: 0 text drawn, 1 extract_json applied
    jtext,      \* the text handed to extract_json, with the object it holds
    jout,       \* extract_json(text)
    cphase,     \* completion harness: 0 check-in drawn, 1 computed
    checkin,    \* the check-in handed to compute_daily_completion
    cout,       \* its (done, total, rate)
    afn,        \* adapter harness: "generate" or "adjust"
    akey,       \* whether an API key is available (sidebar or environment)
    ar1,        \* what the chat.completions call does
    ar2,        \* what the responses call does
    apc,        \* position in the adapter: start, primary, fallback, done
    acalls,     \* the outbound calls issued so far, in order
    aret,       \* the (plan, raw) pair returned, once returned
    araised,    \* whether the invocation raised to its caller
    vphase,     \* preview harness: 0 reminder drawn, 1 preview built
    vstart,     \* date.today().weekday(): 0 is Monday
    vrem,       \* the reminder previewed: its rrule and what the rule says
    vout,       \* the offsets 0..6 from today on which the preview lists it
    sphase,     \* summary harness: 0 log drawn, 1 summarized
    slog,       \* the check-in log handed to summarize_checkins
    sout,       \* summarize_checkins(slog)
    snote,      \* the band of the adjustment note built from that summary
    step,                   \* st.session_state["step"]
    profile,                \* st.session_state["profile"]: "empty" ({}) or "saved"
    plan,                   \* st.session_state["plan"]
    plan_history,           \* st.session_state["plan_history"]
    reminders_custom,       \* st.session_state["reminders_custom"]: references
    checkins,               \* st.session_state["checkins"]
    last_adjustment_note,   \* st.session_state["last_adjustment_note"]
    ui_error,               \* st.session_state["ui_error"]
    heap,                   \* the reminder dicts, by reference
    turn                    \* how the last script run ended: "ok", "error" (an
                            \* unhandled exception), or, for a generate / adjust
                            \* turn that returned, "plan" or "no result"

normVars == <<nphase, nplan, nout, nout2>>
jsonVars == <<jphase, jtext, jout>>
compVars == <<cphase, checkin, cout>>
llmVars == <<afn, akey, ar1, ar2, apc, acalls, aret, araised>>
viewVars == <<vphase, vstart, vrem, vout>>
sumVars == <<sphase, slog, sout, snote>>

sessVars ==
    <<step, profile, plan, plan_history, reminders_custom, checkins,
      last_adjustment_note, ui_error, heap, turn>>

vars == <<normVars, jsonVars, compVars, llmVars, viewVars, sumVars, sessVars>>

\* ------------------------------------------------------------------ bounds

\* Longest new_habits / reminders list drawn as an input of normalize_plan.
MaxItems == 2

\* Most items in a check-in drawn as an input of compute_daily_completion.
MaxCheckinItems == 3

\* Most plans a session generates or adjusts (entries of plan_history).
MaxHistory == 2

\* Most reminder dicts a session allocates.
MaxHeap == 2

\* Most check-ins a session saves.
MaxCheckins == 1

\* Most spaces drawn between a trailing comma and the closer that follows it.
MaxSpaces == 1

\* ------------------------------------------------------------- JSON values

V(t, s) == [t |-> t, s |-> s]
Absent == V("absent", <<>>)
Null == V("null", <<>>)
Str(s) == V("str", s)
Num(s) == V("num", s)
Bool(s) == V("bool", s)
List(l) == V("list", l)
Dict(keys) == V("dict", keys)

SeqsUpTo(S, n) == UNION {[1..k -> S] : k \in 0..n}

\* Python truthiness of a present value (the `x or default` idiom).
Truthy(v) ==
    CASE v.t = "null" -> FALSE
      [] v.t = "bool" -> v.s = <<"True">>
      [] v.t = "num" -> v.s # <<"0">>
      [] OTHER -> v.s # <<>>

\* str(v) as a character sequence.
PyStr(v) ==
    CASE v.t = "null" -> <<"N", "o", "n", "e">>
      [] v.t = "list" -> <<"[">> \o v.s \o <<"]">>
      [] v.t = "dict" -> <<"{">> \o v.s \o <<"}">>
      [] OTHER -> v.s

\* dict.setdefault(key, d): d only when the key is absent.
setdefault(v, d) == IF v.t = "absent" THEN d ELSE v

\* `for x in v`: a number or True is not iterable (TypeError); a falsy value
\* was replaced by [] before the loop.
IterRaises(v) == Truthy(v) /\ v.t \in {"num", "bool"}

WEEKDAYS == <<"Mon", "Tue", "Wed", "Thu", "Fri", "Sat", "Sun">>

InWeekdays(d) == \E i \in 1..Len(WEEKDAYS) : WEEKDAYS[i] = d

DefaultDays == <<"Mon", "Wed", "Fri">>
DefaultTime == <<"0", "9", ":", "0", "0">>
DefaultRrule == <<"FREQ=", "DAILY">>
Difficulties == {<<"easy">>, <<"mid">>, <<"hard">>}

IsDigit(c) == c \in {"0", "1", "2", "3", "4", "5", "6", "7", "8", "9"}

\* re.match(r"^\d{2}:\d{2}$", t): `$` also matches just before a final newline.
MatchHHMM(t) ==
    /\ Len(t) >= 5
    /\ IsDigit(t[1]) /\ IsDigit(t[2]) /\ t[3] = ":" /\ IsDigit(t[4]) /\ IsDigit(t[5])
    /\ \/ Len(t) = 5
       \/ Len(t) = 6 /\ t[6] = "\n"

\* str(x.get("time") or "09:00") fails the pattern
TimeNeedsReset(time) ==
    ~MatchHHMM(PyStr(IF Truthy(time) THEN time ELSE Str(DefaultTime)))

\* The filter without its `or [...]` default.
FilterDaysNoDefault(l) == SelectSeq(l, InWeekdays)

\* [d for d in days if d in WEEKDAYS] or ["Mon", "Wed", "Fri"]
FilterDays(l) ==
    LET kept == SelectSeq(l, InWeekdays)
    IN IF kept = <<>> THEN DefaultDays ELSE kept

\* ------------------------------------------------------------ normalize_plan

EmptySchedule ==
    [t |-> "dict", days |-> Absent, time |-> Absent, frequency_per_week |-> Absent]

\* lines 222-240: the schedule of one habit
normalize_schedule(sch) ==
    LET s0 == IF sch.t = "dict" THEN sch ELSE EmptySchedule
        s1 == [s0 EXCEPT !.days = setdefault(@, List(DefaultDays)),
                         !.time = setdefault(@, Str(DefaultTime)),
                         !.frequency_per_week = setdefault(@, Num(<<"3">>))]
        days == IF Truthy(s1.days) THEN s1.days ELSE List(<<>>)
        s2 == [s1 EXCEPT !.days = IF days.t = "list"
                                  THEN List(FilterDays(days.s))
                                  ELSE List(DefaultDays)]
    IN IF TimeNeedsReset(s2.time) THEN [s2 EXCEPT !.time = Str(DefaultTime)] ELSE s2

\* lines 217-244: one element of new_habits
normalize_habit(h) ==
    IF h.t # "dict" THEN h
    ELSE LET h1 == [h EXCEPT !.name = setdefault(@, Str(<<"new habit">>)),
                             !.why = setdefault(@, Str(<<>>)),
                             !.difficulty = setdefault(@, Str(<<"easy">>)),
                             !.schedule = normalize_schedule(@)]
         IN IF h1.difficulty.t = "str" /\ h1.difficulty.s \in Difficulties
            THEN h1
            ELSE [h1 EXCEPT !.difficulty = Str(<<"easy">>)]

\* lines 248-258: one element of reminders
normalize_reminder(r) ==
    IF r.t # "dict" THEN r
    ELSE LET r1 == [r EXCEPT !.title = setdefault(@, Str(<<"reminder">>)),
                             !.time = setdefault(@, Str(DefaultTime)),
                             !.rrule = setdefault(@, Str(DefaultRrule))]
             r2 == IF TimeNeedsReset(r1.time)
                   THEN [r1 EXCEPT !.time = Str(DefaultTime)] ELSE r1
             rr == PyStr(IF Truthy(r2.rrule) THEN r2.rrule ELSE Str(<<>>))
         IN IF Len(rr) >= 1 /\ rr[1] = "FREQ="
            THEN r2
            ELSE [r2 EXCEPT !.rrule = Str(DefaultRrule)]

\* The dict {} : no key present.
EmptyPlan ==
    [t |-> "dict", summary |-> Absent, pain_points |-> Absent, solutions |-> Absent,
     new_habits |-> Absent, reminders |-> Absent, next_adjustment_rules |-> Absent]

\* A parsed value that is not a dict (a JSON array or scalar).
NonDictPlan == [EmptyPlan EXCEPT !.t = "other"]

\* No value yet (a harness variable before its operation has run).
NotRun == [EmptyPlan EXCEPT !.t = "none"]

\* Python's None where a plan is expected.
NonePlan == [EmptyPlan EXCEPT !.t = "None"]

\* normalize_plan did not return: the loop over a non-iterable raised TypeError.
RaisedPlan == [EmptyPlan EXCEPT !.t = "raise"]

\* `for h in plan.get("new_habits", []) or []`: only a list holds dict
\* elements that the loop body rewrites in place; a string yields characters
\* and a dict yields keys, which the loop skips.
NormalizeHabits(v) ==
    IF v.t = "list" THEN List([i \in 1..Len(v.s) |-> normalize_habit(v.s[i])]) ELSE v

\* `for r in plan.get("reminders", []) or []`
NormalizeReminders(v) ==
    IF v.t = "list" THEN List([i \in 1..Len(v.s) |-> normalize_reminder(v.s[i])]) ELSE v

normalize_plan(parsed) ==
    IF parsed.t # "dict" THEN EmptyPlan
    ELSE LET p1 == [parsed EXCEPT !.summary = setdefault(@, Str(<<>>)),
                                !.pain_points = setdefault(@, List(<<>>)),
                                !.solutions = setdefault(@, List(<<>>)),
                                !.new_habits = setdefault(@, List(<<>>)),
                                !.reminders = setdefault(@, List(<<>>)),
                                !.next_adjustment_rules = setdefault(@, List(<<>>))]
         IN IF IterRaises(p1.new_habits) \/ IterRaises(p1.reminders)
            THEN RaisedPlan
            ELSE [p1 EXCEPT !.new_habits = NormalizeHabits(@),
                            !.reminders = NormalizeReminders(@)]

\* -------------------------------------------------------- json.loads, re.sub
\* A text is a sequence of tokens: the structural characters { } [ ] , : the
\* quote Q, the space " ", the digit "1", letters, and the two words "FENCE"
\* (three backquotes) and "json".  A parsed value is written as its canonical
\* token sequence (the text without the spaces outside strings); None and a
\* raised exception are the two marker sequences below.

Q == "\""
PyNone == <<"None">>
JsonError == <<"raise">>

At(s, i) == IF i >= 1 /\ i <= Len(s) THEN s[i] ELSE "EOF"

RECURSIVE SkipWs(_, _)
SkipWs(s, i) == IF At(s, i) = " " THEN SkipWs(s, i + 1) ELSE i

\* Index after the quote closing a string whose content starts at j; 0 if none.
RECURSIVE FindQuote(_, _)
FindQuote(s, j) ==
    IF j > Len(s) THEN 0
    ELSE IF s[j] = Q THEN j + 1 ELSE FindQuote(s, j + 1)

ParseString(s, i) == IF At(s, i) = Q THEN FindQuote(s, i + 1) ELSE 0

RECURSIVE NumberEnd(_, _)
NumberEnd(s, i) == IF At(s, i) = "1" THEN NumberEnd(s, i + 1) ELSE i

\* The JSON grammar: each operator returns the index after what it parsed,
\* or 0 when the text at that index is not of that form.
RECURSIVE ParseValue(_, _), ParseMembers(_, _), ParseElements(_, _)
ParseValue(s, i) ==
    LET j == SkipWs(s, i)
        c == At(s, j)
    IN CASE c = "1" -> NumberEnd(s, j)
         [] c = Q -> ParseString(s, j)
         [] c = "{" -> LET k == SkipWs(s, j + 1)
                       IN IF At(s, k) = "}" THEN k + 1 ELSE ParseMembers(s, k)
         [] c = "[" -> LET k == SkipWs(s, j + 1)
                       IN IF At(s, k) = "]" THEN k + 1 ELSE ParseElements(s, k)
         [] OTHER -> 0

ParseMembers(s, k) ==
    LET a == ParseString(s, k)
        b == SkipWs(s, a)
        v == IF a # 0 /\ At(s, b) = ":" THEN ParseValue(s, b + 1) ELSE 0
        m == SkipWs(s, v)
    IN IF v = 0 THEN 0
       ELSE CASE At(s, m) = "," -> ParseMembers(s, SkipWs(s, m + 1))
              [] At(s, m) = "}" -> m + 1
              [] OTHER -> 0

ParseElements(s, k) ==
    LET v == ParseValue(s, k)
        m == SkipWs(s, v)
    IN IF v = 0 THEN 0
       ELSE CASE At(s, m) = "," -> ParseElements(s, m + 1)
              [] At(s, m) = "]" -> m + 1
              [] OTHER -> 0

\* The text without the spaces that lie outside its strings.
RECURSIVE CanonFrom(_, _, _)
CanonFrom(s, i, inStr) ==
    IF i > Len(s) THEN <<>>
    ELSE IF s[i] = Q THEN <<Q>> \o CanonFrom(s, i + 1, ~inStr)
    ELSE IF s[i] = " " /\ ~inStr THEN CanonFrom(s, i + 1, inStr)
    ELSE <<s[i]>> \o CanonFrom(s, i + 1, inStr)

\* json.loads(s): the value, or JsonError when s is not one JSON document.
json_loads(s) ==
    LET e == ParseValue(s, 1)
    IN IF e # 0 /\ SkipWs(s, e) = Len(s) + 1 THEN CanonFrom(s, 1, FALSE) ELSE JsonError

\* re.sub(r",\s*" + close, close, s): leftmost, non-overlapping, on the raw
\* characters (inside strings too).
RECURSIVE SubComma(_, _, _)
SubComma(s, i, close) ==
    IF i > Len(s) THEN <<>>
    ELSE IF s[i] = "," /\ At(s, SkipWs(s, i + 1)) = close
         THEN <<close>> \o SubComma(s, SkipWs(s, i + 1) + 1, close)
         ELSE <<s[i]>> \o SubComma(s, i + 1, close)

\* text.find(c): 0 when c does not occur (Python's -1).
RECURSIVE Find(_, _, _)
Find(s, c, i) == IF i > Len(s) THEN 0 ELSE IF s[i] = c THEN i ELSE Find(s, c, i + 1)

RECURSIVE RFind(_, _, _)
RFind(s, c, i) == IF i < 1 THEN 0 ELSE IF s[i] = c THEN i ELSE RFind(s, c, i - 1)

\* re.search(r"```json\s*(\{.*?\})\s*```", text, re.DOTALL): the group of the
\* leftmost match, as <<first, last>> indices, or <<0, 0>>.
FenceAt(s, i, e) ==
    /\ At(s, i) = "FENCE" /\ At(s, i + 1) = "json"
    /\ At(s, SkipWs(s, i + 2)) = "{"
    /\ e > SkipWs(s, i + 2) /\ At(s, e) = "}"
    /\ At(s, SkipWs(s, e + 1)) = "FENCE"

FenceGroup(s) ==
    LET starts == {i \in 1..Len(s) : \E e \in 1..Len(s) : FenceAt(s, i, e)}
    IN IF starts = {} THEN <<0, 0>>
       ELSE LET i == CHOOSE x \in starts : \A y \in starts : x <= y
                e == CHOOSE x \in 1..Len(s) :
                        FenceAt(s, i, x) /\ \A y \in 1..Len(s) : FenceAt(s, i, y) => x <= y
            IN <<SkipWs(s, i + 2), e>>

\* try: return first / except: fall through to rest
TryElse(first, rest) == IF first # JsonError THEN first ELSE rest

\* lines 195-196: the slice with its trailing commas removed
Repaired(blob) == SubComma(SubComma(blob, 1, "}"), 1, "]")

\* lines 190-200: the slice parsed, then repaired and parsed
ParseBlob(blob) == TryElse(json_loads(blob), TryElse(json_loads(Repaired(blob)), PyNone))

\* lines 186-200: the outermost { ... } slice
ExtractOutermost(text) ==
    LET st == Find(text, "{", 1)
        e == RFind(text, "}", Len(text))
    IN IF st # 0 /\ e # 0 /\ e > st THEN ParseBlob(SubSeq(text, st, e)) ELSE PyNone

\* lines 179-184: the fenced block, when there is one
ParseFenced(text, g) ==
    IF g[1] # 0 THEN json_loads(SubSeq(text, g[1], g[2])) ELSE JsonError

extract_json(text) ==
    IF text = <<>> THEN PyNone
    ELSE TryElse(ParseFenced(text, FenceGroup(text)), ExtractOutermost(text))

\* ------------------------------------------------ compute_daily_completion

\* sum(1 for it in items if it.get("done") is True), counting every truthy
\* flag instead.
CountDoneTruthy(items) ==
    Cardinality({i \in 1..Len(items) : items[i].done \in {"True", "1", "yes"}})

\* sum(1 for it in items if it.get("done") is True): the identity test
\* accepts the boolean True alone.
RECURSIVE CountDone(_)
CountDone(items) ==
    IF items = <<>> THEN 0
    ELSE (IF Head(items).done = "True" THEN 1 ELSE 0) + CountDone(Tail(items))

\* A rate is the exact rational num/den; the code holds its float rounding.
Rate(num, den) == [num |-> num, den |-> den]

\* lines 404-410.  c.items is the value of c.get("items").
compute_daily_completion(c) ==
    LET items == IF Truthy(c.items) THEN c.items.s ELSE <<>>
        total == Len(items)
        done == CountDone(items)
    IN [done |-> done, total |-> total,
        rate |-> IF total # 0 THEN Rate(done * 100, total) ELSE Rate(0, 1)]

CompIdle ==
    /\ cphase = 0
    /\ checkin = [items |-> Absent]
    /\ cout = [done |-> 0, total |-> 0, rate |-> Rate(0, 1)]

\* No preview built: no reminder drawn.
ViewIdle ==
    /\ vphase = 0 /\ vstart = 0 /\ vout = {}
    /\ vrem = [rrule |-> <<>>, kind |-> "other", byday |-> {}]

\* What summarize_checkins returns for an empty log (lines 415-416); its
\* average is the integer 0, which compares as the float 0.0.
EmptySummary ==
    [count |-> 0, avg |-> [z |-> TRUE, m |-> <<>>, e |-> 0], tag |-> "none",
     low_days |-> {}, hard_habits |-> {}]

SumIdle == sphase = 0 /\ slog = <<>> /\ sout = EmptySummary /\ snote = "none"

\* ------------------------------- generate_plan_with_llm, adjust_plan_with_llm
\* What an endpoint call does: it raises, or it returns a text.  The text is
\* a token sequence; obj is the dict that a non-empty object literal in the
\* text denotes (the tokens carry the shape, obj the members).

Raises == [kind |-> "raise", text |-> <<>>, obj |-> EmptyPlan]

\* The call raises an exception whose message is msg.
RaisesWith(msg) == [Raises EXCEPT !.text = msg]
Returns(text, obj) == [kind |-> "text", text |-> text, obj |-> obj]

\* str.strip()
RECURSIVE StripLeft(_)
StripLeft(s) == IF s # <<>> /\ Head(s) = " " THEN StripLeft(Tail(s)) ELSE s

RECURSIVE StripRight(_)
StripRight(s) ==
    IF s # <<>> /\ s[Len(s)] = " " THEN StripRight(SubSeq(s, 1, Len(s) - 1)) ELSE s

Strip(s) == StripRight(StripLeft(s))

EmptyObject == <<"{", "}">>

\* Truthiness of what extract_json returns: None and {} are falsy.
DataTruthy(x) == x # PyNone /\ x # EmptyObject

\* The Python value of a parsed canonical text.
Decode(canon, obj) ==
    IF canon = EmptyObject THEN EmptyPlan
    ELSE IF canon[1] = "{" THEN obj
    ELSE NonDictPlan

ErrorText == <<"ERROR">>

\* lines 308-321 and 368-381: the primary try block.  ok is FALSE when an
\* exception was swallowed by `except Exception: pass`.
PrimaryReturn(resp, text, data, norm) ==
    IF resp.kind = "raise" \/ data = JsonError \/ norm.t = "raise"
    THEN [ok |-> FALSE, plan |-> NonePlan, raw |-> <<>>]
    ELSE [ok |-> TRUE, plan |-> norm, raw |-> text]

\* line 319: return normalize_plan(data), text
PrimaryNormalize(resp, text, data) ==
    PrimaryReturn(resp, text, data, normalize_plan(Decode(data, resp.obj)))

\* a or b
PyOr(a, b) == IF DataTruthy(a) THEN a ELSE b

\* line 318: data = extract_json(text) or json.loads(text)
PrimaryParse(resp, text) ==
    PrimaryNormalize(resp, text, PyOr(extract_json(text), json_loads(text)))

PrimaryAttempt(resp) == PrimaryParse(resp, Strip(resp.text))

\* lines 324-338 and 384-398: the fallback try block and its except clause.
FallbackReturn(resp, text, data, norm) ==
    IF resp.kind = "raise" THEN [plan |-> NonePlan, raw |-> ErrorText \o resp.text]
    ELSE IF ~DataTruthy(data) THEN [plan |-> NonePlan, raw |-> text]
    ELSE IF norm.t = "raise" THEN [plan |-> NonePlan, raw |-> ErrorText]
    ELSE [plan |-> norm, raw |-> text]

\* lines 334-335: if data: return normalize_plan(data), text
FallbackNormalize(resp, text, data) ==
    FallbackReturn(resp, text, data, normalize_plan(Decode(data, resp.obj)))

\* line 333: data = extract_json(text)
FallbackParse(resp, text) == FallbackNormalize(resp, text, extract_json(text))

FallbackAttempt(resp) == FallbackParse(resp, Strip(resp.text))

NoReturn == [plan |-> NotRun, raw |-> <<>>]

\* lines 266-268: OpenAI(api_key=...) or OpenAI(); the constructor raises
\* when neither the argument nor the environment gives a key.
openai_client(hasKey) == hasKey

\* One whole invocation: the calls issued, whether it raised, what it returned.
\* The return of the primary block, or the fallback block when it raised.
AfterPrimary(primary, r2) ==
    IF primary.ok
    THEN [raised |-> FALSE, calls |-> <<"chat.completions">>,
          ret |-> [plan |-> primary.plan, raw |-> primary.raw]]
    ELSE [raised |-> FALSE, calls |-> <<"chat.completions", "responses">>,
          ret |-> FallbackAttempt(r2)]

LlmInvocation(hasKey, r1, r2) ==
    IF ~openai_client(hasKey)
    THEN [raised |-> TRUE, calls |-> <<>>, ret |-> NoReturn]
    ELSE AfterPrimary(PrimaryAttempt(r1), r2)

\* lines 271-338
generate_plan_with_llm(hasKey, r1, r2) == LlmInvocation(hasKey, r1, r2)

\* lines 341-398: the same two try blocks after a different prompt
adjust_plan_with_llm(hasKey, r1, r2) == LlmInvocation(hasKey, r1, r2)

LlmIdle ==
    /\ afn = "generate" /\ akey = TRUE /\ ar1 = Raises /\ ar2 = Raises
    /\ apc = "idle" /\ acalls = <<>> /\ aret = NoReturn /\ araised = FALSE

\* ------------------------------------------------------------ session state

\* lines 52-62: the defaults of a fresh session (also what a reset leaves).
_init_state ==
    /\ step = 1
    /\ profile = "empty"
    /\ plan = NonePlan
    /\ plan_history = <<>>
    /\ reminders_custom = <<>>
    /\ checkins = <<>>
    /\ last_adjustment_note = ""
    /\ ui_error = <<>>
    /\ heap = <<>>
    /\ turn = "ok"

\* ------------------------------------------------- inputs of normalize_plan

T2359 == <<"2", "3", ":", "5", "9">>

\* Values a time field can hold in a parsed object.
TimeVals ==
    {Absent, Null, Num(<<"0">>), Bool(<<"False">>), Str(<<>>),
     Str(DefaultTime), Str(T2359), Str(<<"9", ":", "0", "0">>),
     Str(<<"1", "2", ":", "3", "4", "\n">>), Str(<<"s", "o", "o", "n">>),
     Num(<<"9", "3", "0">>), Bool(<<"True">>)}

DaysVals ==
    {Absent, Null, List(<<>>), List(<<"Mon", "Tue">>), List(<<"Sat", "Funday">>),
     List(<<"monday", "#1">>), Str(<<"M", "o", "n">>), Num(<<"7">>)}

DiffVals ==
    {Absent, Null, Str(<<"easy">>), Str(<<"hard">>), Str(<<"extreme">>),
     Num(<<"1">>), List(<<"easy">>)}

RruleVals ==
    {Absent, Null, Str(<<>>), Str(DefaultRrule), Str(<<"FREQ=", "WEEKLY">>),
     Str(<<"freq=", "daily">>), Str(<<"every day">>), Num(<<"1">>),
     List(<<"FREQ=">>)}

BaseSchedule ==
    [t |-> "dict", days |-> List(<<"Mon", "Tue">>), time |-> Str(T2359),
     frequency_per_week |-> Num(<<"5">>)]

ScheduleInputs ==
    {EmptySchedule, [EmptySchedule EXCEPT !.t = "absent"],
     [EmptySchedule EXCEPT !.t = "other"]}
    \cup {[BaseSchedule EXCEPT !.days = d] : d \in DaysVals}
    \cup {[BaseSchedule EXCEPT !.time = x] : x \in TimeVals}

EmptyHabit ==
    [t |-> "dict", name |-> Absent, why |-> Absent, difficulty |-> Absent,
     schedule |-> [EmptySchedule EXCEPT !.t = "absent"]]

BaseHabit ==
    [t |-> "dict", name |-> Str(<<"walk">>), why |-> Str(<<"health">>),
     difficulty |-> Str(<<"mid">>), schedule |-> BaseSchedule]

\* Every enum-like field of one habit out of range at once.
WorstHabit ==
    [BaseHabit EXCEPT !.difficulty = Str(<<"extreme">>),
                      !.schedule = [BaseSchedule EXCEPT
                                      !.days = List(<<"monday", "#1">>),
                                      !.time = Str(<<"s", "o", "o", "n">>)]]

HabitInputs ==
    {EmptyHabit, [EmptyHabit EXCEPT !.t = "other"], WorstHabit}
    \cup {[BaseHabit EXCEPT !.difficulty = d] : d \in DiffVals}
    \cup {[BaseHabit EXCEPT !.schedule = s] : s \in ScheduleInputs}

EmptyReminder == [t |-> "dict", title |-> Absent, time |-> Absent, rrule |-> Absent]

BaseReminder ==
    [t |-> "dict", title |-> Str(<<"stretch">>), time |-> Str(T2359),
     rrule |-> Str(<<"FREQ=", "WEEKLY">>)]

ReminderInputs ==
    {EmptyReminder, [EmptyReminder EXCEPT !.t = "other"]}
    \cup {[BaseReminder EXCEPT !.time = x] : x \in TimeVals}
    \cup {[BaseReminder EXCEPT !.rrule = x] : x \in RruleVals}

SummaryVals == {Absent, Null, Str(<<>>), Str(<<"s">>), List(<<"s">>)}
ListFieldVals == {Absent, Null, List(<<>>), List(<<"p">>), Str(<<"p">>)}
ItemFieldVals ==
    {Absent, Null, List(<<>>), Num(<<"0">>), Num(<<"5">>), Str(<<"a", "b">>),
     Dict(<<"k">>), Bool(<<"True">>)}

\* Parsed values handed to normalize_plan: a non-dict; dicts whose top-level
\* keys are absent, well-shaped or wrong-shaped; dicts whose new_habits or
\* reminders is a list of up to MaxItems elements.
PlanInputs ==
    {NonDictPlan}
    \cup {[t |-> "dict", summary |-> a, pain_points |-> b, solutions |-> c,
           new_habits |-> d, reminders |-> e, next_adjustment_rules |-> f] :
            a \in SummaryVals, b \in ListFieldVals, c \in {Absent, List(<<"p">>)},
            d \in ItemFieldVals, e \in {Absent, Null, Num(<<"5">>), Str(<<"r">>)},
            f \in {Absent, Null}}
    \cup {[EmptyPlan EXCEPT !.new_habits = List(l)] : l \in SeqsUpTo(HabitInputs, MaxItems)}
    \cup {[EmptyPlan EXCEPT !.reminders = List(l)] : l \in SeqsUpTo(ReminderInputs, MaxItems)}
    \cup {[EmptyPlan EXCEPT !.new_habits = List(<<h>>), !.reminders = List(<<r>>)] :
            h \in HabitInputs, r \in ReminderInputs}

\* ------------------------------------------------- normalizer: state machine

JsonIdle == jphase = 0 /\ jtext = [text |-> <<>>, want |-> <<>>] /\ jout = PyNone

NormInit ==
    /\ JsonIdle /\ CompIdle /\ LlmIdle /\ ViewIdle /\ SumIdle /\ _init_state
    /\ nphase = 0
    /\ nplan \in PlanInputs
    /\ nout = NotRun
    /\ nout2 = NotRun

\* normalize_plan(x)
NormalizeOnce ==
    /\ nphase = 0
    /\ nout' = normalize_plan(nplan)
    /\ nphase' = 1
    /\ UNCHANGED <<nplan, nout2>>
    /\ UNCHANGED <<jsonVars, compVars, llmVars, sessVars, viewVars, sumVars>>

\* normalize_plan(normalize_plan(x)), when the first application returned
NormalizeAgain ==
    /\ nphase = 1
    /\ nout.t # "raise"
    /\ nout2' = normalize_plan(nout)
    /\ nphase' = 2
    /\ UNCHANGED <<nplan, nout>>
    /\ UNCHANGED <<jsonVars, compVars, llmVars, sessVars, viewVars, sumVars>>

NormNext == NormalizeOnce \/ NormalizeAgain

SpecNorm == NormInit /\ [][NormNext]_vars

\* The elements of a list-valued field that are dicts.
DictItems(v) ==
    IF v.t = "list" THEN {x \in {v.s[i] : i \in 1..Len(v.s)} : x.t = "dict"} ELSE {}

ExactHHMM(v) == v.t = "str" /\ Len(v.s) = 5 /\ MatchHHMM(v.s)

\* C1: normalize_plan(normalize_plan(x)) = normalize_plan(x) for every input x,
\* a non-dict value included.
NormalizeIdempotent == nphase = 2 => nout2 = nout

\* C1, the part that holds: idempotent on every dict input.
NormalizeIdempotentOnDicts == (nphase = 2 /\ nplan.t = "dict") => nout2 = nout

\* C2: after normalize_plan returns, the five list keys hold lists and summary
\* holds a string, whether the key was absent or present with a wrong shape.
NormalizeTopLevelShapes ==
    (nphase >= 1 /\ nout.t = "dict") =>
        /\ nout.summary.t = "str"
        /\ nout.pain_points.t = "list"
        /\ nout.solutions.t = "list"
        /\ nout.new_habits.t = "list"
        /\ nout.reminders.t = "list"
        /\ nout.next_adjustment_rules.t = "list"

\* C3: after normalize_plan, every habit's schedule.time and every reminder's
\* time is exactly two digits, a colon and two digits.
NormalizeTimesWellFormed ==
    (nphase >= 1 /\ nout.t = "dict") =>
        /\ \A h \in DictItems(nout.new_habits) : ExactHHMM(h.schedule.time)
        /\ \A r \in DictItems(nout.reminders) : ExactHHMM(r.time)

\* C4: after normalize_plan, every habit object has a difficulty among easy,
\* mid, hard and a non-empty schedule.days list of weekday tokens, and every
\* reminder object has an rrule string that starts with FREQ=.
NormalizeEnumsValid ==
    (nphase >= 1 /\ nout.t = "dict") =>
        /\ \A h \in DictItems(nout.new_habits) :
            /\ h.difficulty.t = "str" /\ h.difficulty.s \in Difficulties
            /\ h.schedule.t = "dict"
            /\ h.schedule.days.t = "list"
            /\ h.schedule.days.s # <<>>
            /\ \A i \in 1..Len(h.schedule.days.s) : InWeekdays(h.schedule.days.s[i])
        /\ \A r \in DictItems(nout.reminders) :
            /\ r.rrule.t = "str"
            /\ Len(r.rrule.s) >= 1 /\ r.rrule.s[1] = "FREQ="

\* A habit with an unrecognized difficulty and no valid weekday, beside a
\* reminder whose rrule lacks the prefix, all three rewritten to the defaults.
NormalizeEnumsWitness ==
    /\ nphase = 1
    /\ nplan.t = "dict" /\ nplan.new_habits.t = "list" /\ nplan.reminders.t = "list"
    /\ \E i \in 1..Len(nplan.new_habits.s), j \in 1..Len(nplan.new_habits.s),
          k \in 1..Len(nplan.reminders.s) :
        /\ nplan.new_habits.s[i].difficulty = Str(<<"extreme">>)
        /\ nout.new_habits.s[i].difficulty = Str(<<"easy">>)
        /\ nplan.new_habits.s[j].schedule.days = List(<<"monday", "#1">>)
        /\ nout.new_habits.s[j].schedule.days = List(DefaultDays)
        /\ nplan.reminders.s[k].rrule = Str(<<"freq=", "daily">>)
        /\ nout.reminders.s[k].rrule = Str(DefaultRrule)

\* --------------------------------------------------- inputs of extract_json

\* Object literals, in canonical form.
ObjA1 == <<"{", Q, "a", Q, ":", "1", "}">>
ObjList == <<"{", Q, "a", Q, ":", "[", "1", ",", "1", "]", "}">>
ObjNested == <<"{", Q, "a", Q, ":", "{", Q, "b", Q, ":", "1", "}", "}">>
ObjStr == <<"{", Q, "a", Q, ":", Q, "x", Q, "}">>
ObjTwo == <<"{", Q, "a", Q, ":", "1", ",", Q, "b", Q, ":", "[", "{", Q, "c", Q, ":", "1", "}", "]", "}">>
ObjEmptyList == <<"{", Q, "a", Q, ":", "[", "]", "}">>
\* {"a": "x,}"} and {"a": "x, ]"}: a string that holds a comma before a closer
ObjStrBrace == <<"{", Q, "a", Q, ":", Q, "x", ",", "}", Q, "}">>
ObjStrBracket == <<"{", Q, "a", Q, ":", Q, "x", ",", " ", "]", Q, "}">>

ObjLiterals ==
    {ObjA1, ObjList, ObjNested, ObjStr, ObjTwo, ObjEmptyList, ObjStrBrace, ObjStrBracket}

InString(s, k) == Cardinality({i \in 1..(k - 1) : s[i] = Q}) % 2 = 1

\* Where a trailing comma can stand: before a closer that ends a non-empty
\* object or list.
TrailingPositions(s) ==
    {k \in 2..Len(s) : /\ s[k] \in {"}", "]"}
                       /\ ~InString(s, k)
                       /\ s[k - 1] \notin {"{", "[", ","}}

Spaces(n) == [i \in 1..n |-> " "]

InsertAt(s, k, ins) == SubSeq(s, 1, k - 1) \o ins \o SubSeq(s, k, Len(s))

\* Prose before and after the literal; it holds no brace.
Prefixes == {<<>>, <<"p", " ">>, <<"p", ":", " ">>, <<"FENCE", "json", " ">>}
Suffixes == {<<>>, <<" ", "p">>, <<" ", "FENCE">>, <<",", " ", "p", " ">>}

\* Texts that are prose around one object literal whose only defect is one
\* trailing comma, each with the object the literal denotes.
JsonInputs ==
    UNION {{[text |-> pre \o InsertAt(o, k, <<",">> \o Spaces(n)) \o post, want |-> o] :
                pre \in Prefixes, post \in Suffixes, n \in 0..MaxSpaces,
                k \in TrailingPositions(o)} : o \in ObjLiterals}

\* ------------------------------------------------- extraction: state machine

NormIdle == nphase = 0 /\ nplan = NotRun /\ nout = NotRun /\ nout2 = NotRun

JsonInit ==
    /\ NormIdle /\ CompIdle /\ LlmIdle /\ ViewIdle /\ SumIdle /\ _init_state
    /\ jphase = 0
    /\ jtext \in JsonInputs
    /\ jout = PyNone

\* extract_json(text)
ExtractJson ==
    /\ jphase = 0
    /\ jout' = extract_json(jtext.text)
    /\ jphase' = 1
    /\ UNCHANGED jtext
    /\ UNCHANGED <<normVars, compVars, llmVars, sessVars, viewVars, sumVars>>

JsonNext == ExtractJson

SpecJson == JsonInit /\ [][JsonNext]_vars

\* The object holds no string that the repair's patterns match.
RepairLeavesStrings(o) == SubComma(SubComma(o, 1, "}"), 1, "]") = o

\* C8: given prose around one object literal whose only defect is a trailing
\* comma before a closing brace or bracket, extract_json returns the object
\* that the literal denotes.
ExtractJsonRepairsTrailingComma == jphase = 1 => jout = jtext.want

\* C8, the part that holds: a dict is always returned, and it is the denoted
\* object whenever no string inside the literal holds a comma before a closer.
ExtractJsonReturnsSomeObject == jphase = 1 => (jout # PyNone /\ jout[1] = "{")

ExtractJsonRepairsOutsideStrings ==
    (jphase = 1 /\ RepairLeavesStrings(jtext.want)) => jout = jtext.want

\* --------------------------------------------------- completion: state machine

\* The "done" value of an item: True, False, absent/None, or a truthy
\* non-boolean (the number 1, the string "yes").
DoneVals == {"True", "False", "None", "1", "yes"}

ItemInputs == {[name |-> n, done |-> d] : n \in {"walk", "read"}, d \in DoneVals}

CheckinInputs ==
    {[items |-> Absent], [items |-> Null]}
    \cup {[items |-> List(l)] : l \in SeqsUpTo(ItemInputs, MaxCheckinItems)}

CompInit ==
    /\ NormIdle /\ JsonIdle /\ LlmIdle /\ ViewIdle /\ SumIdle /\ _init_state
    /\ cphase = 0
    /\ checkin \in CheckinInputs
    /\ cout = [done |-> 0, total |-> 0, rate |-> Rate(0, 1)]

\* compute_daily_completion(checkin)
ComputeDailyCompletion ==
    /\ cphase = 0
    /\ cout' = compute_daily_completion(checkin)
    /\ cphase' = 1
    /\ UNCHANGED checkin
    /\ UNCHANGED <<normVars, jsonVars, llmVars, sessVars, viewVars, sumVars>>

CompNext == ComputeDailyCompletion

SpecComp == CompInit /\ [][CompNext]_vars

ItemsOf(c) == IF c.items.t = "list" THEN c.items.s ELSE <<>>

\* C10: compute_daily_completion returns (done, total, rate) with total the
\* number of items, done the number of items whose flag is true,
\* 0 <= done <= total and rate = done / total * 100; with no items the rate
\* is 0.
DailyCompletionCorrect ==
    cphase = 1 =>
        LET items == ItemsOf(checkin)
        IN /\ cout.total = Len(items)
           /\ cout.done = Cardinality({i \in 1..Len(items) : items[i].done = "True"})
           /\ 0 <= cout.done /\ cout.done <= cout.total
           /\ cout.rate.den > 0
           /\ cout.total > 0 => cout.rate.num * cout.total = cout.done * 100 * cout.rate.den
           /\ cout.total = 0 => cout.rate.num = 0

\* Three items, two of them done and one flagged with a truthy non-boolean:
\* done 2 of 3, rate 200/3.
DailyCompletionWitness ==
    /\ cphase = 1
    /\ cout.total = 3 /\ cout.done = 2
    /\ cout.rate.num * 3 = 200 * cout.rate.den
    /\ \E i \in 1..Len(ItemsOf(checkin)) : ItemsOf(checkin)[i].done = "1"

\* A check-in without an items field: rate 0, nothing raised.
DailyCompletionEmptyWitness ==
    cphase = 1 /\ checkin.items = Absent /\ cout.total = 0 /\ cout.rate.num = 0

\* ------------------------------------------------------ adapter: state machine

\* Dicts an endpoint can describe: a well-formed plan, and one whose
\* new_habits is a number (normalize_plan raises on it).
GoodPlan ==
    [EmptyPlan EXCEPT !.summary = Str(<<"s">>),
                      !.new_habits = List(<<BaseHabit>>),
                      !.reminders = List(<<BaseReminder>>)]

UniterablePlan == [EmptyPlan EXCEPT !.new_habits = Num(<<"5">>)]

RespPlans == {GoodPlan, UniterablePlan}

\* Texts that hold a non-empty object literal: alone, in prose, with a
\* trailing comma, inside an array, fenced.
ObjTexts ==
    {ObjA1,
     <<"p", " ">> \o ObjA1 \o <<" ", "p">>,
     InsertAt(ObjA1, Len(ObjA1), <<",">>),
     <<"[">> \o ObjA1 \o <<"]">>,
     <<"FENCE", "json", " ">> \o ObjA1 \o <<" ", "FENCE">>}

\* Texts that hold none: empty, blank, prose, {}, {} in prose, an array, a
\* number, a string.
PlainTexts ==
    {<<>>, <<" ">>, <<"p">>, EmptyObject, <<"p", " ", "{", "}">>,
     <<"[", "1", "]">>, <<" ", "1">>, <<Q, "x", Q>>}

Responses ==
    {Raises}
    \cup {Returns(t, o) : t \in ObjTexts, o \in RespPlans}
    \cup {Returns(t, EmptyPlan) : t \in PlainTexts}

LlmInit ==
    /\ NormIdle /\ JsonIdle /\ CompIdle /\ ViewIdle /\ SumIdle /\ _init_state
    /\ afn \in {"generate", "adjust"}
    /\ akey \in BOOLEAN
    /\ ar1 \in Responses
    /\ ar2 \in Responses
    /\ apc = "start"
    /\ acalls = <<>>
    /\ aret = NoReturn
    /\ araised = FALSE

LlmFrame == UNCHANGED <<afn, akey, ar1, ar2>> /\ UNCHANGED <<normVars, jsonVars, compVars, sessVars, viewVars, sumVars>>

\* line 305 / 351: client = openai_client(api_key), outside any try block
ConstructClient ==
    /\ apc = "start"
    /\ IF openai_client(akey)
       THEN apc' = "primary" /\ UNCHANGED araised
       ELSE apc' = "done" /\ araised' = TRUE
    /\ UNCHANGED <<acalls, aret>>
    /\ LlmFrame

\* line 319 returns from the function; an exception goes on to the fallback
PrimaryEnds(primary) ==
    IF primary.ok
    THEN /\ aret' = [plan |-> primary.plan, raw |-> primary.raw]
         /\ apc' = "done"
    ELSE /\ apc' = "fallback"
         /\ UNCHANGED aret

\* lines 308-321 / 368-381: client.chat.completions.create(...)
PrimaryCall ==
    /\ apc = "primary"
    /\ acalls' = Append(acalls, "chat.completions")
    /\ PrimaryEnds(PrimaryAttempt(ar1))
    /\ UNCHANGED araised
    /\ LlmFrame

\* lines 324-338 / 384-398: client.responses.create(...)
FallbackCall ==
    /\ apc = "fallback"
    /\ acalls' = Append(acalls, "responses")
    /\ aret' = FallbackAttempt(ar2)
    /\ apc' = "done"
    /\ UNCHANGED araised
    /\ LlmFrame

LlmNext == ConstructClient \/ PrimaryCall \/ FallbackCall

SpecLLM == LlmInit /\ [][LlmNext]_vars

\* The three ways the primary call fails according to the specification: it
\* raises, its text does not parse, or its text parses to a non-object.
PrimaryFailsAsListed(r) ==
    LET text == Strip(r.text)
        v == json_loads(text)
    IN \/ r.kind = "raise"
       \/ v = JsonError /\ extract_json(text) = PyNone
       \/ v # JsonError /\ v[1] # "{"

\* The fallback yields nothing: it raises or no object can be used.
FallbackFails(r) == FallbackAttempt(r).plan = NonePlan

\* C5: whenever the primary call fails in one of the three listed ways, the
\* fallback call is issued and nothing is returned from the primary path.
FallbackOnPrimaryFailure ==
    (apc = "done" /\ acalls # <<>> /\ PrimaryFailsAsListed(ar1)) =>
        acalls = <<"chat.completions", "responses">>

\* What C6 says of a finished invocation.
CallDiscipline ==
    /\ Len(acalls) <= 2
    /\ Len(acalls) >= 1 => acalls[1] = "chat.completions"
    /\ Len(acalls) = 2 => (acalls[2] = "responses" /\ ~PrimaryAttempt(ar1).ok)
    /\ ~araised
    /\ (~PrimaryAttempt(ar1).ok /\ FallbackFails(ar2)) =>
            (aret.plan = NonePlan /\ aret.raw \in {Strip(ar2.text), ErrorText})

\* C6: an invocation issues at most two calls, the primary first and the
\* fallback only after the primary failed, never raises to its caller, and
\* returns None with the raw text or an error message when both attempts fail.
AdapterCallDiscipline == apc = "done" => CallDiscipline

\* C6, the part that holds: the same, for the invocations whose client was
\* constructed.
AdapterCallDisciplineWithClient == (apc = "done" /\ akey) => CallDiscipline

\* C7: with no credential the invocation issues no call and reports a
\* recoverable failure: None with a diagnostic text, nothing raised.
MissingCredentialRecoverable ==
    (apc = "done" /\ ~akey) =>
        /\ acalls = <<>>
        /\ ~araised
        /\ aret.plan = NonePlan
        /\ aret.raw # <<>>

\* ------------------------------------------------------ session: state machine

\* raw[:1200]
UI_ERROR_MAX == 1200

Prefix(s, n) == SubSeq(s, 1, IF Len(s) < n THEN Len(s) ELSE n)

\* `if not plan`: None and the empty dict are falsy.
PlanTruthy(p) == p.t = "dict" /\ p # EmptyPlan

\* plan.get("new_habits") or []
HabitsOf(p) == IF p.new_habits.t = "list" THEN p.new_habits.s ELSE <<>>

\* What the endpoint answers in a session: a plan with one habit and one
\* reminder, a plan with two habits and no reminders key, prose, a bare
\* number, the empty object; or the call raises, with a short message or
\* with one longer than UI_ERROR_MAX.
HabitsOnlyPlan ==
    [EmptyPlan EXCEPT !.new_habits =
        List(<<BaseHabit, [BaseHabit EXCEPT !.name = Str(<<"read">>)]>>)]

LongMessage == [i \in 1..UI_ERROR_MAX |-> "x"]

SessResponses ==
    {Raises, RaisesWith(LongMessage),
     Returns(ObjA1, GoodPlan), Returns(ObjA1, HabitsOnlyPlan),
     Returns(<<"p">>, EmptyPlan), Returns(<<"1">>, EmptyPlan),
     Returns(EmptyObject, EmptyPlan)}

GenerateOutcomes ==
    {generate_plan_with_llm(k, r1, r2) : k \in BOOLEAN, r1 \in SessResponses, r2 \in SessResponses}

AdjustOutcomes ==
    {adjust_plan_with_llm(k, r1, r2) : k \in BOOLEAN, r1 \in SessResponses, r2 \in SessResponses}

\* The reminder dicts of a returned plan, which enter the heap.
RemindersOf(p) == IF p.reminders.t = "list" THEN p.reminders.s ELSE <<>>

FreshIds(n) == [i \in 1..n |-> Len(heap) + i]

\* The returned plan as the session holds it: its reminders by reference.
Stored(p) ==
    IF p.reminders.t = "list"
    THEN [p EXCEPT !.reminders = List(FreshIds(Len(p.reminders.s)))]
    ELSE p

Entry(p, type) == [type |-> type, plan |-> Stored(p)]

\* A dict that nothing refers to any more is freed (reference counting).
Freed == [t |-> "freed", title |-> Absent, time |-> Absent, rrule |-> Absent]

Referenced(hist, custom) ==
    {custom[i] : i \in 1..Len(custom)}
    \cup UNION {{hist[k].plan.reminders.s[i] : i \in 1..Len(RemindersOf(hist[k].plan))}
                : k \in 1..Len(hist)}

Reclaim(h, hist, custom) ==
    [i \in 1..Len(h) |-> IF i \in Referenced(hist, custom) THEN h[i] ELSE Freed]

\* The plan replaces the current one and is not appended to the history.
InstallPlanNoAppend(p, type) ==
    /\ Len(heap) + Len(RemindersOf(p)) <= MaxHeap
    /\ plan' = Stored(p)
    /\ plan_history' = plan_history
    /\ reminders_custom' = FreshIds(Len(RemindersOf(p)))
    /\ heap' = Reclaim(heap \o RemindersOf(p), plan_history', reminders_custom')
    /\ ui_error' = <<>>

\* lines 606-612 and 861-865: the plan replaces the current one, is appended
\* to the history, and list(plan["reminders"]) - a new list of the same
\* dicts - becomes reminders_custom.
InstallPlan(p, type) ==
    /\ Len(heap) + Len(RemindersOf(p)) <= MaxHeap
    /\ plan' = Stored(p)
    /\ plan_history' = Append(plan_history, Entry(p, type))
    /\ reminders_custom' = FreshIds(Len(RemindersOf(p)))
    /\ heap' = Reclaim(heap \o RemindersOf(p), plan_history', reminders_custom')
    /\ ui_error' = <<>>

SessFrame == UNCHANGED <<normVars, jsonVars, compVars, llmVars, viewVars, sumVars>>

OnPlanPage == step = 2 /\ profile = "saved"

OnCheckinPage == step = 3 /\ PlanTruthy(plan) /\ HabitsOf(plan) # <<>>

\* lines 541-565: the survey form, submitted with a habit named
SaveSurvey ==
    /\ step = 1
    /\ profile' = "saved"
    /\ step' = 2
    /\ turn' = "ok"
    /\ UNCHANGED <<plan, plan_history, reminders_custom, checkins,
                   last_adjustment_note, ui_error, heap>>
    /\ SessFrame

\* lines 94-96: the sidebar radio
StepChange ==
    /\ \E s \in {1, 2, 3} : s # step /\ step' = s
    /\ turn' = "ok"
    /\ UNCHANGED <<profile, plan, plan_history, reminders_custom, checkins,
                   last_adjustment_note, ui_error, heap>>
    /\ SessFrame

\* lines 116-119: every key deleted, then _init_state on the rerun
ResetSession ==
    /\ step' = 1
    /\ profile' = "empty"
    /\ plan' = NonePlan
    /\ plan_history' = <<>>
    /\ reminders_custom' = <<>>
    /\ checkins' = <<>>
    /\ last_adjustment_note' = ""
    /\ ui_error' = <<>>
    /\ heap' = <<>>
    /\ turn' = "ok"
    /\ SessFrame

\* The turn with the returned plan stored before it is tested for None.
AfterInvocationStoresFirst(o, type, note) ==
    IF o.raised
    THEN /\ turn' = "error"
         /\ UNCHANGED <<plan, plan_history, reminders_custom,
                        last_adjustment_note, ui_error, heap>>
    ELSE IF o.ret.plan = NonePlan
    THEN /\ ui_error' = Prefix(o.ret.raw, UI_ERROR_MAX)
         /\ turn' = "no result"
         /\ plan' = NonePlan
         /\ UNCHANGED <<plan_history, reminders_custom,
                        last_adjustment_note, heap>>
    ELSE /\ Len(plan_history) < MaxHistory
         /\ InstallPlan(o.ret.plan, type)
         /\ last_adjustment_note' = note
         /\ turn' = "plan"

\* What a turn does with the adapter's outcome o (lines 602-614, 857-869):
\* a raised exception leaves the section and ends the turn; with no plan the
\* raw text, cut to UI_ERROR_MAX, is kept for display; a plan is installed.
AfterInvocation(o, type, note) ==
    IF o.raised
    THEN /\ turn' = "error"
         /\ UNCHANGED <<plan, plan_history, reminders_custom,
                        last_adjustment_note, ui_error, heap>>
    ELSE IF o.ret.plan = NonePlan
    THEN /\ ui_error' = Prefix(o.ret.raw, UI_ERROR_MAX)
         /\ turn' = "no result"
         /\ UNCHANGED <<plan, plan_history, reminders_custom,
                        last_adjustment_note, heap>>
    ELSE /\ Len(plan_history) < MaxHistory
         /\ InstallPlan(o.ret.plan, type)
         /\ last_adjustment_note' = note
         /\ turn' = "plan"

\* lines 593-614: the generate button
GeneratePlan ==
    /\ OnPlanPage
    /\ \E o \in GenerateOutcomes :
        AfterInvocation(o, "generated", last_adjustment_note)
    /\ UNCHANGED <<step, profile, checkins>>
    /\ SessFrame

EditValue(f) ==
    CASE f = "time" -> Str(<<"0", "7", ":", "3", "0">>)
      [] f = "rrule" -> Str(<<"FREQ=", "WEEKLY", ";", "BYDAY=", "Mon">>)
      [] OTHER -> Str(<<"renamed">>)

\* lines 676-689: a text input of reminder i changed; r[field] is assigned
\* on the dict that reminders_custom[i] refers to.  (Every rendering of the
\* panel assigns the stripped text of all three fields; for the reminders of
\* a session here that leaves them as they are.)
EditReminder ==
    /\ OnPlanPage /\ PlanTruthy(plan)
    /\ \E i \in 1..Len(reminders_custom), f \in {"time", "rrule", "title"} :
        heap' = [heap EXCEPT ![reminders_custom[i]][f] = EditValue(f)]
    /\ turn' = "ok"
    /\ UNCHANGED <<step, profile, plan, plan_history, reminders_custom, checkins,
                   last_adjustment_note, ui_error>>
    /\ SessFrame

\* lines 691-694: reminders.pop(i)
DeleteReminder ==
    /\ OnPlanPage /\ PlanTruthy(plan)
    /\ \E i \in 1..Len(reminders_custom) :
        reminders_custom' = SubSeq(reminders_custom, 1, i - 1)
                            \o SubSeq(reminders_custom, i + 1, Len(reminders_custom))
    /\ heap' = Reclaim(heap, plan_history, reminders_custom')
    /\ turn' = "ok"
    /\ UNCHANGED <<step, profile, plan, plan_history, checkins,
                   last_adjustment_note, ui_error>>
    /\ SessFrame

\* lines 703-709: the add form, submitted with a title and the default
\* time 21:30 and rule FREQ=DAILY
AddReminder ==
    /\ OnPlanPage /\ PlanTruthy(plan)
    /\ Len(heap) < MaxHeap
    /\ heap' = Append(heap, [t |-> "dict", title |-> Str(<<"sleep">>),
                             time |-> Str(<<"2", "1", ":", "3", "0">>),
                             rrule |-> Str(DefaultRrule)])
    /\ reminders_custom' = Append(reminders_custom, Len(heap) + 1)
    /\ turn' = "ok"
    /\ UNCHANGED <<step, profile, plan, plan_history, checkins,
                   last_adjustment_note, ui_error>>
    /\ SessFrame

\* lines 743-747
GoToCheckin ==
    /\ OnPlanPage /\ PlanTruthy(plan)
    /\ step' = 3
    /\ turn' = "ok"
    /\ UNCHANGED <<profile, plan, plan_history, reminders_custom, checkins,
                   last_adjustment_note, ui_error, heap>>
    /\ SessFrame

ItemName(h) == IF h.name.t = "str" /\ h.name.s # <<>> THEN h.name.s[1] ELSE "habit"

\* lines 771-791: one checkbox per habit, then the save button
SaveCheckin ==
    /\ OnCheckinPage
    /\ Len(checkins) < MaxCheckins
    /\ \E dn \in [1..Len(HabitsOf(plan)) -> {"True", "False"}] :
        checkins' = Append(checkins,
            [date |-> "today", mood |-> 6,
             items |-> List([i \in 1..Len(HabitsOf(plan)) |->
                                [name |-> ItemName(HabitsOf(plan)[i]), done |-> dn[i]]])])
    /\ turn' = "ok"
    /\ UNCHANGED <<step, profile, plan, plan_history, reminders_custom,
                   last_adjustment_note, ui_error, heap>>
    /\ SessFrame

\* lines 847-869: the adjust button
AdjustPlan ==
    /\ OnCheckinPage
    /\ \E o \in AdjustOutcomes : AfterInvocation(o, "adjusted", "note")
    /\ UNCHANGED <<step, profile, checkins>>
    /\ SessFrame

Init ==
    /\ NormIdle /\ JsonIdle /\ CompIdle /\ LlmIdle /\ ViewIdle /\ SumIdle
    /\ _init_state

Next ==
    \/ SaveSurvey \/ StepChange \/ ResetSession
    \/ GeneratePlan
    \/ EditReminder \/ DeleteReminder \/ AddReminder \/ GoToCheckin
    \/ SaveCheckin
    \/ AdjustPlan

Spec == Init /\ [][Next]_vars

\* What a history entry shows: its plan with the reminders read through the
\* references.
EntryContent(h, e) ==
    [type |-> e.type,
     plan |-> e.plan,
     reminders |-> IF e.plan.reminders.t = "list"
                   THEN [i \in 1..Len(e.plan.reminders.s) |-> h[e.plan.reminders.s[i]]]
                   ELSE <<>>]

HistoryPreserved ==
    /\ Len(plan_history') >= Len(plan_history)
    /\ \A i \in 1..Len(plan_history) :
        EntryContent(heap', plan_history'[i]) = EntryContent(heap, plan_history[i])

\* C9: across every user action other than the session reset, the history
\* loses and reorders no entry and the plan content of an existing entry,
\* its reminders included, does not change.
HistoryAppendOnlyImmutable == [][~ResetSession => HistoryPreserved]_vars

\* The list itself is append-only: no action other than the reset removes,
\* reorders or replaces an entry (the type and the plan with its references).
HistoryAppendOnly ==
    [][~ResetSession =>
        /\ Len(plan_history') >= Len(plan_history)
        /\ \A i \in 1..Len(plan_history) : plan_history'[i] = plan_history[i]]_vars

\* A generated plan is in the history and one of its reminders has been
\* edited in the reminder panel.
HistoryEntryEdited ==
    /\ plan_history # <<>>
    /\ RemindersOf(plan_history[1].plan) # <<>>
    /\ heap[plan_history[1].plan.reminders.s[1]] # BaseReminder

\* The no-result returns of the adapter.
NoResultOutcomes ==
    {o \in GenerateOutcomes \cup AdjustOutcomes : ~o.raised /\ o.ret.plan = NonePlan}

\* C14: a generate or adjust turn that ends with no result leaves the plan,
\* the history, the custom reminders (list and dicts), the check-ins and the
\* adjustment note as they were and sets ui_error to the first UI_ERROR_MAX
\* characters of the raw text or error message; a turn that ends with a plan
\* clears ui_error.
NoResultLeavesSession ==
    [][/\ turn' = "no result" =>
            /\ UNCHANGED <<plan, plan_history, reminders_custom, checkins,
                           last_adjustment_note, heap>>
            /\ Len(ui_error') <= UI_ERROR_MAX
            /\ \E o \in NoResultOutcomes : ui_error' = Prefix(o.ret.raw, UI_ERROR_MAX)
       /\ turn' = "plan" => ui_error' = <<>>]_vars

\* A turn has ended with no result while a plan was current, and the message
\* was longer than UI_ERROR_MAX.
NoResultWitness ==
    /\ turn = "no result"
    /\ plan_history # <<>>
    /\ ui_error = Prefix(ErrorText \o LongMessage, UI_ERROR_MAX)
    /\ Len(ErrorText \o LongMessage) > UI_ERROR_MAX

\* C16: the current plan is None exactly when the history is empty, and
\* otherwise it is the plan of the entry appended last.
PlanIsLatestEntry ==
    /\ plan = NonePlan <=> plan_history = <<>>
    /\ plan # NonePlan => plan = plan_history[Len(plan_history)].plan

\* The history holds MaxHistory plans and a later turn has edited a reminder
\* of the current one.
PlanIsLatestWitness ==
    /\ Len(plan_history) = MaxHistory
    /\ turn = "ok"
    /\ reminders_custom # <<>>
    /\ heap[reminders_custom[1]].time = EditValue("time")

\* ------------------------------------------- the adapter: what is returned

\* The returned text holds an object literal that can be parsed out of it.
HoldsObject(r) == r.kind = "text" /\ extract_json(Strip(r.text)) # PyNone

\* That object after normalization.
NormalizedObject(r) == normalize_plan(Decode(extract_json(Strip(r.text)), r.obj))

ObjectWithText(r) == [plan |-> NormalizedObject(r), raw |-> Strip(r.text)]

\* C13: when the text returned on a call path holds a parseable object, the
\* empty object included, the adapter returns that object normalized with the
\* raw text; None is returned only when no object could be parsed or the call
\* raised; and the two paths give the same kind of outcome for the same text.
ParsedObjectReturned ==
    (apc = "done" /\ ~araised) =>
        /\ HoldsObject(ar1) => aret = ObjectWithText(ar1)
        /\ (Len(acalls) = 2 /\ HoldsObject(ar2)) => aret = ObjectWithText(ar2)
        /\ PrimaryAttempt(ar1).ok <=> FallbackAttempt(ar1).plan # NonePlan

\* C13, the part that holds: a non-empty object whose lists can be iterated
\* is returned normalized with the raw text, from whichever path returned it.
NonEmptyObject(r) ==
    /\ HoldsObject(r)
    /\ extract_json(Strip(r.text)) # EmptyObject
    /\ NormalizedObject(r).t # "raise"

NonEmptyObjectReturned ==
    (apc = "done" /\ ~araised) =>
        /\ NonEmptyObject(ar1) => aret = ObjectWithText(ar1)
        /\ (Len(acalls) = 2 /\ NonEmptyObject(ar2)) => aret = ObjectWithText(ar2)
        /\ NonEmptyObject(ar1) =>
              (PrimaryAttempt(ar1).ok /\ FallbackAttempt(ar1).plan # NonePlan)

\* ------------------------------------------------ the 7-day reminder preview
\* Here an rrule is a sequence of characters.

\* Most weekday tokens in the BYDAY list of a drawn rule.
MaxByDay == 2

LowerCase == <<"a", "b", "c", "d", "e", "f", "g", "h", "i", "j", "k", "l", "m", "n", "o", "p", "q", "r", "s", "t", "u", "v", "w", "x", "y", "z">>
UpperCase == <<"A", "B", "C", "D", "E", "F", "G", "H", "I", "J", "K", "L", "M", "N", "O", "P", "Q", "R", "S", "T", "U", "V", "W", "X", "Y", "Z">>

UpperChar(c) ==
    IF \E i \in 1..Len(LowerCase) : LowerCase[i] = c
    THEN UpperCase[CHOOSE i \in 1..Len(LowerCase) : LowerCase[i] = c]
    ELSE c

\* str.upper()
upper(s) == [i \in 1..Len(s) |-> UpperChar(s[i])]

\* sub in s
Contains(s, sub) ==
    \E i \in 1..(Len(s) - Len(sub) + 1) : SubSeq(s, i, i + Len(sub) - 1) = sub

FreqDaily == <<"F", "R", "E", "Q", "=", "D", "A", "I", "L", "Y">>
FreqWeekly == <<"F", "R", "E", "Q", "=", "W", "E", "E", "K", "L", "Y">>
ByDayKey == <<"B", "Y", "D", "A", "Y", "=">>

\* [A-Z,]
IsByDayChar(c) == c = "," \/ \E i \in 1..Len(UpperCase) : UpperCase[i] = c

\* re.search(r"BYDAY=([A-Z,]+)", rr): where the group of the leftmost match
\* starts, 0 when there is no match.
ByDayStart(rr) ==
    LET hits == {i \in 1..(Len(rr) - Len(ByDayKey)) :
                    /\ SubSeq(rr, i, i + Len(ByDayKey) - 1) = ByDayKey
                    /\ IsByDayChar(rr[i + Len(ByDayKey)])}
    IN IF hits = {} THEN 0
       ELSE (CHOOSE i \in hits : \A j \in hits : i <= j) + Len(ByDayKey)

\* The last index of the greedy run [A-Z,]+ that starts at i.
RECURSIVE ByDayEnd(_, _)
ByDayEnd(rr, i) ==
    IF i + 1 <= Len(rr) /\ IsByDayChar(rr[i + 1]) THEN ByDayEnd(rr, i + 1) ELSE i

\* str.split(",")
RECURSIVE split(_)
split(s) ==
    IF Find(s, ",", 1) = 0 THEN <<s>>
    ELSE <<SubSeq(s, 1, Find(s, ",", 1) - 1)>>
         \o split(SubSeq(s, Find(s, ",", 1) + 1, Len(s)))

\* m.group(1).split(",")
ByDayOf(rr, st) == split(SubSeq(rr, st, ByDayEnd(rr, st)))

\* The characters of a weekday token of WEEKDAYS.
DowChars(d) ==
    CASE d = "Mon" -> <<"M", "o", "n">>
      [] d = "Tue" -> <<"T", "u", "e">>
      [] d = "Wed" -> <<"W", "e", "d">>
      [] d = "Thu" -> <<"T", "h", "u">>
      [] d = "Fri" -> <<"F", "r", "i">>
      [] d = "Sat" -> <<"S", "a", "t">>
      [] d = "Sun" -> <<"S", "u", "n">>

\* dow in by
InList(x, l) == \E k \in 1..Len(l) : l[k] = x

\* lines 720-731: ok, for the upper-cased rule rr and the weekday token dow
Ok(rr, dow) ==
    IF Contains(rr, FreqDaily) THEN TRUE
    ELSE IF Contains(rr, FreqWeekly)
    THEN IF ByDayStart(rr) # 0
         THEN InList(DowChars(dow), ByDayOf(rr, ByDayStart(rr)))
         ELSE TRUE
    ELSE TRUE

\* lines 716-717: WEEKDAYS[d.weekday()] of the date i days after a day whose
\* weekday is start (0 is Monday).
Dow(start, i) == WEEKDAYS[((start + i) % 7) + 1]

\* lines 714-733: the offsets from today at which the preview lists a
\* reminder with this rrule; rr = (r.get("rrule") or "").upper()
preview(start, rrule) == {i \in 0..6 : Ok(upper(rrule), Dow(start, i))}

\* ---- inputs

\* BYDAY lists: up to MaxByDay distinct weekday tokens, in any order.
ByDayLists ==
    {l \in UNION {[1..k -> 1..7] : k \in 1..MaxByDay} :
        \A a \in 1..Len(l), b \in 1..Len(l) : a # b => l[a] # l[b]}

RECURSIVE JoinDays(_)
JoinDays(l) ==
    IF Len(l) = 1 THEN DowChars(WEEKDAYS[l[1]])
    ELSE DowChars(WEEKDAYS[l[1]]) \o <<",">> \o JoinDays(Tail(l))

DaysOf(l) == {WEEKDAYS[l[k]] : k \in 1..Len(l)}

Rule(chars, kind, days) == [rrule |-> chars, kind |-> kind, byday |-> days]

\* The rules drawn: weekly with a BYDAY list, daily (with and without a BYDAY
\* list), weekly without BYDAY, monthly, empty.
ReminderRules ==
    {Rule(FreqWeekly \o <<";">> \o ByDayKey \o JoinDays(l), "byday", DaysOf(l)) : l \in ByDayLists}
    \cup {Rule(FreqDaily, "daily", {}),
          Rule(FreqDaily \o <<";">> \o ByDayKey \o <<"M", "o", "n">>, "daily", {}),
          Rule(FreqWeekly, "weekly", {}),
          Rule(<<"F", "R", "E", "Q", "=", "M", "O", "N", "T", "H", "L", "Y">>, "other", {}),
          Rule(<<>>, "other", {})}

ViewInit ==
    /\ NormIdle /\ JsonIdle /\ CompIdle /\ LlmIdle /\ SumIdle /\ _init_state
    /\ vphase = 0
    /\ vstart \in 0..6
    /\ vrem \in ReminderRules
    /\ vout = {}

\* lines 714-733
BuildPreview ==
    /\ vphase = 0
    /\ vphase' = 1
    /\ vout' = preview(vstart, vrem.rrule)
    /\ UNCHANGED <<vstart, vrem>>
    /\ UNCHANGED <<normVars, jsonVars, compVars, llmVars, sumVars, sessVars>>

ViewNext == BuildPreview

SpecView == ViewInit /\ [][ViewNext]_vars

\* C15: a weekly rule with a BYDAY list is listed on exactly the dates of the
\* next seven whose weekday is in the list; every other rule (daily, weekly
\* without BYDAY, anything else) is listed on all seven.
PreviewFollowsRule ==
    vphase = 1 =>
        vout = IF vrem.kind = "byday"
               THEN {i \in 0..6 : Dow(vstart, i) \in vrem.byday}
               ELSE 0..6

\* C15, what the code does: a weekly rule with a BYDAY list is listed on no
\* date at all; every other rule on all seven.
PreviewDropsByDay ==
    vphase = 1 => vout = IF vrem.kind = "byday" THEN {} ELSE 0..6

\* ------------------------------------------------ Python float arithmetic
\* The summary computes with Python floats (IEEE 754 binary64, round to
\* nearest, ties to even).  Every value it computes is zero or positive, so a
\* float is modelled as zero or as a mantissa m of MantissaBits bits, the top
\* one set, with an exponent e: the value is m * 2^e.  A mantissa does not
\* fit an integer of the model checker, so natural numbers are written as
\* sequences of digits in base Base, the most significant first.  Operations
\* compute the exact result as such a number and round it once, as the
\* hardware does.
MantissaBits == 53

DigitBits == 14

Base == 2 ^ DigitBits

FZero == [z |-> TRUE, m |-> <<>>, e |-> 0]

Zeros(n) == [i \in 1..n |-> 0]

AnyDigit(a) == \E i \in 1..Len(a) : a[i] # 0

\* The position of the first non-zero digit of a number that has one.
FirstDigit(a) ==
    CHOOSE i \in 1..Len(a) : a[i] # 0 /\ \A j \in 1..(i - 1) : a[j] = 0

Canon(a) == IF AnyDigit(a) THEN SubSeq(a, FirstDigit(a), Len(a)) ELSE <<>>

\* The digits of a non-negative integer, none for zero.
RECURSIVE Digits(_)
Digits(n) == IF n = 0 THEN <<>> ELSE Append(Digits(n \div Base), n % Base)

\* The integer a short number writes.
RECURSIVE Value(_)
Value(a) ==
    IF a = <<>> THEN 0 ELSE Base * Value(SubSeq(a, 1, Len(a) - 1)) + a[Len(a)]

\* The number of bits of a digit, and of a number without leading zeros.
DigitLen(d) == IF d = 0 THEN 0 ELSE CHOOSE k \in 1..DigitBits : 2 ^ (k - 1) <= d /\ d < 2 ^ k

BitLen(a) == IF a = <<>> THEN 0 ELSE DigitBits * (Len(a) - 1) + DigitLen(a[1])

\* a * c for a small integer c, from the least significant digit.
RECURSIVE Times(_, _, _, _, _)
Times(a, c, i, carry, acc) ==
    IF i = 0 THEN Digits(carry) \o acc
    ELSE Times(a, c, i - 1, (a[i] * c + carry) \div Base,
               <<(a[i] * c + carry) % Base>> \o acc)

MulSmall(a, c) == Times(a, c, Len(a), 0, <<>>)

\* a divided by a small positive integer n, from the most significant digit:
\* the quotient and the remainder.
RECURSIVE LongDiv(_, _, _, _, _)
LongDiv(a, n, i, r, q) ==
    IF i > Len(a) THEN [q |-> q, r |-> r]
    ELSE LongDiv(a, n, i + 1, (r * Base + a[i]) % n,
                 Append(q, (r * Base + a[i]) \div n))

DivSmall(a, n) == LongDiv(a, n, 1, 0, <<>>)

\* a + b for numbers of one length, from the least significant digit.
RECURSIVE Plus(_, _, _, _, _)
Plus(a, b, i, carry, acc) ==
    IF i = 0 THEN Digits(carry) \o acc
    ELSE Plus(a, b, i - 1, (a[i] + b[i] + carry) \div Base,
              <<(a[i] + b[i] + carry) % Base>> \o acc)

PadLeft(a, n) == Zeros(n - Len(a)) \o a

\* a + b for a at least as long as b.
Add(a, b) == Plus(a, PadLeft(b, Len(a)), Len(a), 0, <<>>)

\* a * 2^s
ShiftLeft(a, s) ==
    MulSmall(a, 2 ^ (s % DigitBits)) \o Zeros(s \div DigitBits)

\* a \div 2^s, and whether a bit was lost.
Halved(d, lost) == [q |-> Canon(d.q), lost |-> lost \/ d.r # 0]

ShiftRight(a, s) ==
    IF s \div DigitBits >= Len(a) THEN [q |-> <<>>, lost |-> AnyDigit(a)]
    ELSE Halved(DivSmall(SubSeq(a, 1, Len(a) - s \div DigitBits),
                         2 ^ (s % DigitBits)),
                AnyDigit(SubSeq(a, Len(a) - s \div DigitBits + 1, Len(a))))

Odd(a) == a # <<>> /\ a[Len(a)] % 2 = 1

\* The mantissa after rounding up: 2^MantissaBits is written with one bit
\* less and the exponent moves by one.
Carried(m, e) ==
    IF BitLen(m) = MantissaBits THEN [z |-> FALSE, m |-> m, e |-> e]
    ELSE [z |-> FALSE, m |-> ShiftRight(m, 1).q, e |-> e + 1]

\* m holds the mantissa and, below it, the guard bit; lost tells whether
\* anything lies below the guard bit.  Round to nearest, ties to even.
RoundGuard(m, lost, e) ==
    IF Odd(m) /\ (lost \/ Odd(ShiftRight(m, 1).q))
    THEN Carried(Canon(Add(ShiftRight(m, 1).q, <<1>>)), e)
    ELSE [z |-> FALSE, m |-> ShiftRight(m, 1).q, e |-> e]

RoundShifted(sr, sticky, e) == RoundGuard(sr.q, sr.lost \/ sticky, e)

\* Round a number b without leading zeros, standing for b * 2^e plus a
\* positive amount below 2^e when sticky, to the nearest float.
RoundStripped(b, e, sticky) ==
    IF b = <<>> THEN FZero
    ELSE IF BitLen(b) <= MantissaBits
    THEN [z |-> FALSE, m |-> Canon(ShiftLeft(b, MantissaBits - BitLen(b))),
          e |-> e - (MantissaBits - BitLen(b))]
    ELSE RoundShifted(ShiftRight(b, BitLen(b) - MantissaBits - 1), sticky,
                      e + BitLen(b) - MantissaBits)

Round(a, e, sticky) == RoundStripped(Canon(a), e, sticky)

\* float(n) of a small non-negative integer.
FromInt(n) == Round(Digits(n), 0, FALSE)

\* The quotient carries enough bits below the mantissa for the rounding to
\* see a guard bit, and the remainder tells whether anything lies below it.
DivRounded(d, e) == Round(d.q, e, d.r # 0)

ExtraBits(n) == MantissaBits + 2 + BitLen(Digits(n))

\* x / n for a float x and a small positive integer n.
FDivInt(x, n) ==
    IF x.z THEN FZero
    ELSE DivRounded(DivSmall(ShiftLeft(x.m, ExtraBits(n)), n), x.e - ExtraBits(n))

\* a / b for small integers a >= 0 and b > 0 (Python's true division).
IntDiv(a, b) ==
    DivRounded(DivSmall(ShiftLeft(Digits(a), ExtraBits(b)), b), 0 - ExtraBits(b))

\* x * c for a float x and a small positive integer c.
FMulInt(x, c) == IF x.z THEN FZero ELSE Round(MulSmall(x.m, c), x.e, FALSE)

AddAligned(a, b, e) ==
    IF Len(a) >= Len(b) THEN Round(Add(a, b), e, FALSE)
    ELSE Round(Add(b, a), e, FALSE)

\* x + y.
FAdd(x, y) ==
    IF x.z THEN y
    ELSE IF y.z THEN x
    ELSE IF x.e >= y.e THEN AddAligned(ShiftLeft(x.m, x.e - y.e), y.m, y.e)
    ELSE AddAligned(x.m, ShiftLeft(y.m, y.e - x.e), x.e)

\* Mantissas, which have one length: a is the smaller number.
Less(a, b) ==
    \E i \in 1..Len(a) : a[i] < b[i] /\ \A j \in 1..(i - 1) : a[j] = b[j]

\* x < y.
FLess(x, y) ==
    IF y.z THEN FALSE
    ELSE IF x.z THEN TRUE
    ELSE IF x.e # y.e THEN x.e < y.e
    ELSE Less(x.m, y.m)

\* The integer nearest to half of n, given whether anything lies below n;
\* ties to even.
NearestHalf(n, lost) ==
    IF n % 2 = 1 /\ (lost \/ (n \div 2) % 2 = 1) THEN n \div 2 + 1 ELSE n \div 2

NearestShifted(sr) == NearestHalf(Value(sr.q), sr.lost)

\* The integer nearest to a * 2^e.
Nearest(a, e) ==
    IF e >= 0 THEN Value(ShiftLeft(a, e))
    ELSE NearestShifted(ShiftRight(a, 0 - e - 1))

\* round(x, 1), in tenths: the decimal with one digit nearest to the exact
\* value of x, ties to the even digit.
round1(x) == IF x.z THEN 0 ELSE Nearest(MulSmall(x.m, 10), x.e)

\* ------------------------------------------------------ summarize_checkins
\* A check-in of the log is [age, items]: age is the number of days from its
\* date to today, items the list SaveCheckin stored.  The page asks for the
\* last WindowDays days (line 817).
WindowDays == 7

\* lines 418-419: cutoff = today - (days - 1); date >= cutoff
InWindow(c) == c.age <= WindowDays - 1

recent(log) == SelectSeq(log, InWindow)

\* line 408 as Python computes it: the float done / total, times 100.
FloatRate(cc) ==
    IF cc.total # 0 THEN FMulInt(IntDiv(cc.done, cc.total), 100) ELSE FZero

rate(c) == FloatRate(compute_daily_completion(c))

\* lines 425-428: the rates of the recent check-ins, in order
rates(rec) == [i \in 1..Len(rec) |-> rate(rec[i])]

\* sum(rates): the floats are added from the left, starting from 0.
RECURSIVE sum(_, _, _)
sum(rs, i, acc) ==
    IF i > Len(rs) THEN acc ELSE sum(rs, i + 1, FAdd(acc, rs[i]))

\* line 432
avg_rate(rs) == FDivInt(sum(rs, 1, FZero), Len(rs))

\* The floats the code compares with: 50, 80 and 0.5.
Fifty == FromInt(50)

Eighty == FromInt(80)

Half == IntDiv(1, 2)

\* lines 435-440: the average-rate pattern
Tag(avg) ==
    IF FLess(avg, Fifty) THEN "low"
    ELSE IF ~FLess(avg, Eighty) THEN "high"
    ELSE "middle"

\* round(x, 1) as a float (lines 430, 460, 468): the float nearest to the
\* rounded decimal.
Rounded(x) == IntDiv(round1(x), 10)

\* lines 426-430.  day is the position of the check-in among the recent
\* ones and stands for its date.
LowDay(i, cc, r) ==
    [day |-> i, done |-> cc.done, total |-> cc.total, rate |-> Rounded(r)]

low_days(rec, rs) ==
    {LowDay(i, compute_daily_completion(rec[i]), rs[i]) :
        i \in {j \in 1..Len(rec) : FLess(rs[j], Fifty)}}

\* lines 446-453

Slots(rec) ==
    UNION {{<<i, j>> : j \in 1..Len(ItemsOf(rec[i]))} : i \in 1..Len(rec)}

ItemAt(rec, p) == ItemsOf(rec[p[1]])[p[2]]

habit_total_counts(rec, name) ==
    Cardinality({p \in Slots(rec) : ItemAt(rec, p).name = name})

habit_fail_counts(rec, name) ==
    Cardinality({p \in Slots(rec) :
        ItemAt(rec, p).name = name /\ ItemAt(rec, p).done = "False"})

\* lines 458-459 with > for >=: more than half of the items of a habit failed.
HardEnoughStrict(fail, total) ==
    FLess(Half, IntDiv(fail, total)) /\ total >= 3

\* lines 458-459
HardEnough(fail, total) ==
    ~FLess(IntDiv(fail, total), Half) /\ total >= 3

\* line 460
HardHabit(name, fail, total) ==
    [name |-> name, fail_rate |-> Rounded(FMulInt(IntDiv(fail, total), 100)),
     samples |-> total]

\* lines 455-460.  The list is a set here: its order (most failures first)
\* is left out.
hard_habits(rec) ==
    {HardHabit(n, habit_fail_counts(rec, n), habit_total_counts(rec, n)) :
        n \in {m \in {ItemAt(rec, p).name : p \in Slots(rec)} :
                /\ habit_fail_counts(rec, m) >= 1
                /\ HardEnough(habit_fail_counts(rec, m),
                              habit_total_counts(rec, m))}}

\* lines 465-472
Summary(rec, rs, avg) ==
    [count |-> Len(rec), avg |-> Rounded(avg), tag |-> Tag(avg),
     low_days |-> low_days(rec, rs), hard_habits |-> hard_habits(rec)]

\* lines 424-472
WithRates(rec, rs) == Summary(rec, rs, avg_rate(rs))

\* lines 421-422 and 424-472
Summarized(rec) ==
    IF rec = <<>> THEN [EmptySummary EXCEPT !.tag = "no recent"]
    ELSE WithRates(rec, rates(rec))

\* lines 413-472
summarize_checkins(log) ==
    IF log = <<>> THEN EmptySummary ELSE Summarized(recent(log))

\* lines 827-835: the note the check-in screen builds from the summary
auto_note(summary) ==
    IF FLess(summary.avg, Fifty) THEN "low"
    ELSE IF ~FLess(summary.avg, Eighty) THEN "high"
    ELSE "middle"

\* ------------------------------------------------- summary: state machine
MaxSumItems == 5
MaxLog == 2

HabitNames == <<"walk", "read">>

NameAt(i) == HabitNames[((i - 1) % Len(HabitNames)) + 1]

\* A check-in of n habits, the first d of them ticked.
Ticked(age, n, d) ==
    [age |-> age,
     items |-> List([i \in 1..n |->
                 [name |-> NameAt(i),
                  done |-> IF i <= d THEN "True" ELSE "False"]])]

\* Today's check-ins in every shape, and older ones: on the last day of the
\* window and on the day before it.
SumCheckins ==
    {Ticked(0, p[1], p[2]) :
        p \in {q \in (0..MaxSumItems) \X (0..MaxSumItems) : q[2] <= q[1]}}
    \cup {Ticked(WindowDays - 1, 2, 1), Ticked(WindowDays, 2, 1),
          Ticked(WindowDays, 1, 0)}

\* Check-ins are appended as the days pass: the oldest comes first.
SumLogs ==
    {l \in SeqsUpTo(SumCheckins, MaxLog) :
        \A i \in 1..(Len(l) - 1) : l[i].age >= l[i + 1].age}

SumInit ==
    /\ NormIdle /\ JsonIdle /\ CompIdle /\ LlmIdle /\ ViewIdle /\ _init_state
    /\ sphase = 0
    /\ slog \in SumLogs
    /\ sout = EmptySummary
    /\ snote = "none"

\* lines 817-835: the check-in screen summarizes the log and builds the note
Summarize ==
    /\ sphase = 0
    /\ sphase' = 1
    /\ sout' = summarize_checkins(slog)
    /\ snote' = auto_note(sout')
    /\ UNCHANGED slog
    /\ UNCHANGED <<normVars, jsonVars, compVars, llmVars, viewVars, sessVars>>

SumNext == Summarize

SpecSum == SumInit /\ [][SumNext]_vars

\* The rates of check-ins as exact fractions: the sum of the rates of rec is
\* RateSum(rec) / Denominator(rec).
RECURSIVE Denominator(_)
Denominator(rec) ==
    IF rec = <<>> THEN 1
    ELSE (IF Len(ItemsOf(Head(rec))) = 0 THEN 1 ELSE Len(ItemsOf(Head(rec))))
         * Denominator(Tail(rec))

RECURSIVE RateSum(_, _)
RateSum(rec, den) ==
    IF rec = <<>> THEN 0
    ELSE (IF Len(ItemsOf(Head(rec))) = 0 THEN 0
          ELSE 100 * CountDone(ItemsOf(Head(rec)))
               * (den \div Len(ItemsOf(Head(rec)))))
         + RateSum(Tail(rec), den)

AverageBelow(rec, pct) ==
    RateSum(rec, Denominator(rec)) < pct * Len(rec) * Denominator(rec)

AverageAbove(rec, pct) ==
    RateSum(rec, Denominator(rec)) > pct * Len(rec) * Denominator(rec)

AverageIs(rec, pct) ==
    RateSum(rec, Denominator(rec)) = pct * Len(rec) * Denominator(rec)

RateBelowFifty(c) == 2 * CountDone(ItemsOf(c)) < Len(ItemsOf(c)) \/ ItemsOf(c) = <<>>

LowDaysFollowRates(rec) ==
    {h.day : h \in sout.low_days} = {i \in 1..Len(rec) : RateBelowFifty(rec[i])}

\* C11: when the window holds a check-in, the summary carries the low tag if
\* the average completion rate of the window is below 50%, the high tag if it
\* is above 80% and the middle tag otherwise; and low_days lists exactly the
\* check-ins of the window whose own rate is below 50%.
TagAndLowDaysFollowRates ==
    (sphase = 1 /\ recent(slog) # <<>>) =>
        /\ sout.tag = IF AverageBelow(recent(slog), 50) THEN "low"
                      ELSE IF AverageAbove(recent(slog), 80) THEN "high"
                      ELSE "middle"
        /\ LowDaysFollowRates(recent(slog))

\* C11, the part that holds: low_days is as stated, and so is the tag, with
\* "at least 80%" for the high tag, whenever the average is not exactly 50%.
TagFollowsRatesOffFifty ==
    (sphase = 1 /\ recent(slog) # <<>>) =>
        /\ LowDaysFollowRates(recent(slog))
        /\ ~AverageIs(recent(slog), 50) =>
                sout.tag = IF AverageBelow(recent(slog), 50) THEN "low"
                           ELSE IF ~AverageBelow(recent(slog), 80) THEN "high"
                           ELSE "middle"

\* The habits of the window that have at least 3 items of which at least
\* half were not completed.
NotCompleted(rec, name) ==
    Cardinality({p \in Slots(rec) :
        ItemAt(rec, p).name = name /\ ItemAt(rec, p).done # "True"})

Samples(rec, name) ==
    Cardinality({p \in Slots(rec) : ItemAt(rec, p).name = name})

ChronicallyFailing(rec) ==
    {n \in {HabitNames[i] : i \in 1..Len(HabitNames)} :
        Samples(rec, n) >= 3 /\ 2 * NotCompleted(rec, n) >= Samples(rec, n)}

\* C12: hard_habits names a habit exactly when, over the check-ins of the
\* window, the habit has at least 3 items and at least 50% of them were not
\* completed; the samples of a listed habit is the number of its items in
\* the window.
HardHabitsFollowCounts ==
    sphase = 1 =>
        /\ {h.name : h \in sout.hard_habits} = ChronicallyFailing(recent(slog))
        /\ \A h \in sout.hard_habits : h.samples = Samples(recent(slog), h.name)

\* A habit with four items in the window, two of them not completed, is
\* listed, and another with three or more items is not.
HardHabitsWitness ==
    /\ sphase = 1
    /\ \E h \in sout.hard_habits :
        /\ h.samples = 4
        /\ NotCompleted(recent(slog), h.name) = 2
    /\ \E n \in {HabitNames[i] : i \in 1..Len(HabitNames)} :
        /\ Samples(recent(slog), n) >= 3
        /\ \A h \in sout.hard_habits : h.name # n

\* C17: when the window holds a check-in, the note of the check-in screen is
\* in the band of the summary's average-rate tag.
NoteMatchesTag ==
    (sphase = 1 /\ recent(slog) # <<>>) => snote = sout.tag

\* C17, the part that holds: the two agree whenever the average of the
\* window is not exactly 50%.
NoteMatchesTagOffFifty ==
    (sphase = 1 /\ recent(slog) # <<>> /\ ~AverageIs(recent(slog), 50)) =>
        snote = sout.tag

====
